---- MODULE Spec2Model ----
(***************************************************************************)
(* Model of the photo booth session loop of camera.py: main(), the screens *)
(* it calls (prep_for_photo_screen, taking_photo, playback_screen), the    *)
(* archive copy loop and the top-level try/except/finally.  The two        *)
(* buttons (pin levels, falling-edge latches of the GPIO driver), the      *)
(* wall clock and the file system are the environment.                     *)
(*                                                                         *)
(* Strings are sequences of pieces (characters where the code looks at     *)
(* characters), so that file names are built by concatenation as the code  *)
(* builds them.                                                            *)
(***************************************************************************)
EXTENDS Integers, Sequences, FiniteSets, TLC

\* ------------------------------------------------------------------ bounds
\* largest configured TOTAL_PICS
MaxPics == 2
\* largest configured COUNTDOWN
MaxCountdown == 2
\* falling edges (both buttons together) the environment produces
MaxPresses == 2
\* a button goes down while the tick counter i is below this; the ticks
\* after it pass with no new press
MaxPressTick == 2
\* largest width and height of an image handed to overlay_image
MaxW == 66
MaxH == 34
\* polling rounds of the GPU-effect window before perf_counter() passes 2.0 s
MaxGpuTicks == 1

\* ------------------------------------------------------------- constants
blink_speed == 10

CAMERA_BUTTON_PIN == "cam"
EXIT_BUTTON_PIN == "exit"
Pins == {CAMERA_BUTTON_PIN, EXIT_BUTTON_PIN}

\* Python's None for the two *_is_pressed locals
None == "None"

\* ---------------------------------------------------------------- strings
Digit(d) == <<"0", "1", "2", "3", "4", "5", "6", "7", "8", "9">>[d + 1]

RECURSIVE Str(_)
\* str(n) of a non-negative int: its decimal digits
Str(n) == IF n < 10 THEN <<Digit(n)>> ELSE Str(n \div 10) \o <<Digit(n % 10)>>

TwoDigits(n) == <<Digit((n \div 10) % 10), Digit(n % 10)>>

\* str(datetime.datetime.now()) at second t of the run, "D" standing for the
\* date: "D HH:MM:SS" followed by ".ffffff" unless the microseconds are 0
DatetimeStr(t, micro) ==
    <<"D", " ">> \o TwoDigits(t \div 3600) \o <<":">> \o TwoDigits((t \div 60) % 60)
        \o <<":">> \o TwoDigits(t % 60)
        \o (IF micro THEN <<".", "u">> ELSE <<>>)

RECURSIVE SplitFirst(_, _)
\* s.split(c)[0]
SplitFirst(s, c) ==
    IF s = <<>> \/ Head(s) = c THEN <<>> ELSE <<Head(s)>> \o SplitFirst(Tail(s), c)

\* s.replace(a, b) for one-character a, b
Replace(s, a, b) == [k \in 1..Len(s) |-> IF s[k] = a THEN b ELSE s[k]]

IsPrefix(p, s) == Len(p) <= Len(s) /\ SubSeq(s, 1, Len(p)) = p

RECURSIVE Basename(_)
\* os.path.basename: what follows the last "/"
Basename(p) ==
    IF \E k \in 1..Len(p) : p[k] = "/"
    THEN Basename(Tail(p))
    ELSE p

\* ------------------------------------------------------------ folder names
RawFolder == <<"r">>
Dest1 == <<"a">>
Dest2 == <<"b">>

\* the COPY_IMAGES_TO lists a configuration file is given: two folders (in
\* both orders), and one that names the raw folder again; a file without the
\* key gives the empty list
CopyLists == {<<Dest1, Dest2>>, <<Dest2, Dest1>>, <<RawFolder>>}

\* ------------------------------------------------------ configuration keys
\* the keys read inside the try block of lines 68-93, in the order read
RequiredKeys ==
    <<"CAMERA_BUTTON_PIN", "EXIT_BUTTON_PIN", "TOTAL_PICS", "PREP_DELAY", "COUNTDOWN",
      "PHOTO_W", "PHOTO_H", "SCREEN_W", "SCREEN_H", "CAMERA_ROTATION", "CAMERA_HFLIP",
      "DEBOUNCE_TIME", "TESTMODE_AUTOPRESS_BUTTON", "SAVE_RAW_IMAGES_FOLDER",
      "PROPOSE_GPU_EFFECTS">>

\* every key the program reads: the required ones, the optional list of
\* archive folders (lines 96-104) and the white balance mode (line 121)
ConfigKeys ==
    {RequiredKeys[k] : k \in 1..Len(RequiredKeys)} \cup {"COPY_IMAGES_TO", "AWB_MODE"}

\* the value of a key the model does not look into
Given == "given"

\* a complete camera-config.yaml
ConfigFile(total_pics, countdown, prep_delay, autopress, gpu_effects, copy_to) ==
    [CAMERA_BUTTON_PIN |-> CAMERA_BUTTON_PIN, EXIT_BUTTON_PIN |-> EXIT_BUTTON_PIN,
     TOTAL_PICS |-> total_pics, PREP_DELAY |-> prep_delay, COUNTDOWN |-> countdown,
     PHOTO_W |-> Given, PHOTO_H |-> Given, SCREEN_W |-> Given, SCREEN_H |-> Given,
     CAMERA_ROTATION |-> Given, CAMERA_HFLIP |-> Given, DEBOUNCE_TIME |-> Given,
     TESTMODE_AUTOPRESS_BUTTON |-> autopress, SAVE_RAW_IMAGES_FOLDER |-> RawFolder,
     PROPOSE_GPU_EFFECTS |-> gpu_effects, COPY_IMAGES_TO |-> copy_to,
     AWB_MODE |-> Given]

\* the file with one key left out (None: with none left out)
Without(file, key) == [k \in DOMAIN file \ {key} |-> file[k]]

\* --------------------------------------------------------------- the state
VARIABLES
    \* the mapping yaml.load returned (line 63)
    CONFIG,
    \* configuration, bound once at import (lines 70-104)
    TOTAL_PICS, COUNTDOWN, PREP_DELAY, TESTMODE_AUTOPRESS_BUTTON,
    PROPOSE_GPU_EFFECTS, COPY_IMAGES_TO,
    \* GPIO driver: pin level (0 = pressed), edge detection armed, event latch
    level, armed, latch,
    \* camera: overlays on screen, next overlay handle, image effect, preview
    overlays, image_effect, preview,
    \* wall clock in whole seconds; files on disk (path -> content)
    now, fs,
    \* main(): position and locals (of main and of the screens it calls)
    pc, frame,
    \* how many times the finally block has released the hardware; the
    \* hardware the process holds (GPIO pins set up, camera opened)
    released, opened,
    \* an image handed to overlay_image and the geometry it gave the compositor
    img,
    \* history of the run, read by the properties only
    hist

config == <<CONFIG, TOTAL_PICS, COUNTDOWN, PREP_DELAY, TESTMODE_AUTOPRESS_BUTTON,
            PROPOSE_GPU_EFFECTS, COPY_IMAGES_TO>>
gpio == <<level, armed, latch>>
camera == <<overlays, image_effect, preview>>
process == <<released, opened, img>>
vars == <<config, gpio, camera, now, fs, pc, frame, process, hist>>

PyTrue == "True"

\* positions of main() at which it is running (not yet returned or unwound)
MainPcs == {"start", "loop", "camDebounce", "exitDebounce", "gpuLoop", "gpuDebounce",
            "silence", "prep", "prepHold", "countdown", "countHold", "capture",
            "playback", "slide", "slideHold", "finish", "archive", "endCycle"}

\* the state of the session state machine at a position of main()
Phase(p) ==
    CASE p \in {"loop", "camDebounce", "exitDebounce"} -> "WAITING"
      [] p \in {"gpuLoop", "gpuDebounce"} -> "ARMED"
      [] p \in {"silence", "prep", "prepHold", "countdown", "countHold", "capture"}
            -> "CAPTURING"
      [] p \in {"playback", "slide", "slideHold", "finish"} -> "PLAYBACK"
      [] p \in {"archive", "endCycle"} -> "ARCHIVING"
      [] p = "start" -> "BOOT"
      [] p \in {"config", "setup", "awb"} -> "IMPORT"
      [] OTHER -> "TERMINATED"

\* the locals of main() and its callees before any is assigned
Frame0 ==
    [photo_button_is_pressed |-> None, exit_button_is_pressed |-> None,
     overlay_1 |-> -1, overlay_2 |-> -1, i |-> 0, ticks |-> 0,
     filename_prefix |-> <<>>, photo_filenames |-> <<>>, photo_number |-> 0,
     ol_id |-> -1, filename |-> <<>>, counter |-> 0, countdown_overlay |-> -1,
     prev_overlay |-> -1, this_overlay |-> -1, montage |-> <<>>, idx |-> 0,
     ol_done |-> -1, dest |-> 0, src |-> 0]

Hist0 ==
    [sessions |-> 0,        \* sessions started (passes through line 385)
     completed |-> 0,       \* sessions whose archiving loops finished
     edges |-> [p \in Pins |-> 0], \* falling edges of each pin so far
     lateCamEdges |-> 0,    \* capture-pin edges after the first debounce sample
     firstSample |-> 2,     \* level read by the first capture-pin sample (2: none)
     sample |-> [p \in Pins |-> 2], \* level read by this tick's sample (2: none)
     gpuSample |-> 2,       \* level read by the GPU window's last sample (2: none)
     exitSnap |-> [taken |-> FALSE, introRemoved |-> 0, shots |-> 0, sessions |-> 0],
                            \* the counters below when an exit press was read
     captured |-> <<>>,     \* paths CAMERA.capture wrote in the current session
     montages |-> 0,        \* montage commands of the current session
     shots |-> 0,           \* CAMERA.capture calls of the run
     copied |-> {},         \* (destination, source) pairs copy2 was called on
     copyFailed |-> FALSE,  \* a copy2 call of the current session raised
     introShown |-> 0,      \* times the two intro overlays were put on screen
     introRemoved |-> 0,    \* times they were removed
     armings |-> 0,         \* times edge detection was armed
     folderErrors |-> {},   \* folders the health test reported as used twice
     steps |-> <<>>,        \* what was done for the current photo, in order
     endedBy |-> "running"] \* how main() ended: "exit", "test", "error"

\* no image has been handed to overlay_image
NoImage == [size |-> <<0, 0>>, screen_w |-> 0, pad |-> <<0, 0>>, visible |-> <<0, 0>>,
            shown |-> FALSE]

\* the SCREEN_W values overlay_image is run with
ScreenWidths == {MaxW \div 2, MaxW}

\* The process starts with the configuration file read: complete, or with
\* one of the keys missing.  The module-level names are not bound yet.
Init ==
    /\ \E total_pics \in {1, MaxPics}, countdown \in {MaxCountdown}, prep_delay \in {1},
          autopress \in BOOLEAN, gpu_effects \in BOOLEAN, copy_to \in CopyLists,
          missing \in ConfigKeys \cup {None} :
          CONFIG = Without(ConfigFile(total_pics, countdown, prep_delay, autopress,
                                      gpu_effects, copy_to), missing)
    /\ TOTAL_PICS = 0
    /\ COUNTDOWN = 0
    /\ PREP_DELAY = 0
    /\ TESTMODE_AUTOPRESS_BUTTON = FALSE
    /\ PROPOSE_GPU_EFFECTS = FALSE
    /\ COPY_IMAGES_TO = <<>>
    /\ level = [p \in Pins |-> 1]
    /\ armed = [p \in Pins |-> FALSE]
    /\ latch = [p \in Pins |-> FALSE]
    /\ overlays = {}
    /\ image_effect = "none"
    /\ preview = FALSE
    /\ now = 0
    /\ fs = <<>>
    /\ pc = "config"
    /\ frame = Frame0
    /\ released = 0
    /\ opened = {}
    /\ img = NoImage
    /\ hist = Hist0

\* ------------------------------------------------------------ environment
\* The buttons move while main() runs.  Nothing reads a pin that is not
\* armed (GPIO.input is called in the debounce samples only), so what a
\* button does between lines 382 and 414 is taken just before line 414.
Observed(p) == armed[p] \/ pc \in {"start", "endCycle"}

\* A button goes down: the pin falls, and an armed pin latches the edge.
Press(p) ==
    /\ pc \in MainPcs
    /\ Observed(p)
    /\ level[p] = 1
    /\ hist.edges[CAMERA_BUTTON_PIN] + hist.edges[EXIT_BUTTON_PIN] < MaxPresses
    /\ frame.i < MaxPressTick
    /\ level' = [level EXCEPT ![p] = 0]
    /\ latch' = [latch EXCEPT ![p] = armed[p] \/ @]
    /\ hist' = [hist EXCEPT
                  !.edges[p] = @ + 1,
                  !.lateCamEdges =
                      IF p = CAMERA_BUTTON_PIN /\ hist.firstSample # 2 THEN @ + 1 ELSE @]
    /\ UNCHANGED <<config, armed, camera, now, fs, pc, frame, process>>

\* A button comes up again.
Release(p) ==
    /\ pc \in MainPcs
    /\ Observed(p)
    /\ level[p] = 0
    /\ level' = [level EXCEPT ![p] = 1]
    /\ UNCHANGED <<config, armed, latch, camera, now, fs, pc, frame, process, hist>>

\* ------------------------------------------------------- helper functions
\* get_base_filename_for_images
BaseFilename(t, micro) ==
    RawFolder \o <<"/">>
        \o Replace(Replace(SplitFirst(DatetimeStr(t, micro), "."), " ", "_"), ":", "-")

\* remove_overlay: the sentinel -1 is "no overlay"
RemoveOverlay(ovs, overlay_id) ==
    IF overlay_id # -1 THEN {o \in ovs : o.id # overlay_id} ELSE ovs

\* CAMERA.add_overlay (line 219): the handle of the next overlay.  Handles
\* are the compositor's, opaque to the program; here it numbers its overlays
\* like descriptors, giving the lowest number from FirstHandle on that no
\* overlay on screen has, so that 0 is a handle it hands out
FirstHandle == 0

NextHandle(ovs) ==
    CHOOSE h \in FirstHandle..(FirstHandle + Cardinality(ovs)) :
        /\ \A o \in ovs : o.id # h
        /\ \A g \in FirstHandle..(h - 1) : \E o \in ovs : o.id = g

\* overlay_image: the overlays with one more, under the handle o_id the
\* camera gives it
OverlayImage(ovs, o_id, image_path, layer) ==
    ovs \cup {[id |-> o_id, image |-> image_path, layer |-> layer, alpha |-> 255]}

\* Python's truth value of a handle held as a number
Truthy(h) == h # 0

\* lines 311-312, 411-412: the two intro overlays, layer 3 and layer 4
WithIntro1(ovs) == OverlayImage(ovs, NextHandle(ovs), <<"assets/intro_1.png">>, 3)

WithIntro(ovs) ==
    OverlayImage(WithIntro1(ovs), NextHandle(WithIntro1(ovs)), <<"assets/intro_2.png">>, 4)

\* os.path / open: the file exists
Exists(path) == path \in DOMAIN fs

\* the file system with `content` written to `path`
WriteFile(files, path, content) ==
    [q \in DOMAIN files \cup {path} |-> IF q = path THEN content ELSE files[q]]

\* the shell's expansion of {filename_prefix}*
Glob(prefix) == {q \in DOMAIN fs : IsPrefix(prefix, q)}

\* AfterMain with the release placed so that an interrupt does not reach it
AfterMain_InterruptSkips(kind) ==
    IF kind = "KeyboardInterrupt" THEN "exited" ELSE "finally"

\* where main() goes when it returns or an exception leaves it: the finally block
AfterMain(kind) == "finally"

\* main() is left: by return (kind None), or unwound by an exception, whose
\* except clause prints it; its locals are gone
Leave(kind) ==
    /\ pc' = AfterMain(kind)
    /\ frame' = Frame0

\* GPIO.add_event_detect on both pins raises when a pin is already armed
CanArm == \A p \in Pins : ~armed[p]

\* ---------------------------------------------------------- overlay_image
\* lines 186-191: an image wider than the screen is scaled to the screen's
\* width, its height by the same factor (int() of the float product, taken
\* here as the floor of the exact quotient)
Resized(size, screen_w) ==
    IF size[1] > screen_w
    THEN <<screen_w, (size[2] * screen_w) \div size[1]>>
    ELSE size

\* PaddedSize rounding by always adding a block
PaddedSize_ExtraBlock(size) == <<(size[1] \div 32 + 1) * 32, (size[2] \div 16 + 1) * 16>>

\* lines 203-206: the size of the padded buffer
PaddedSize(size) == <<((size[1] + 31) \div 32) * 32, ((size[2] + 15) \div 16) * 16>>

\* lines 184-219: what CAMERA.add_overlay is given for an image of this size:
\* the padded buffer, and size=img.size of the (possibly scaled) image
OverlayGeometry(size, screen_w) ==
    [pad |-> PaddedSize(Resized(size, screen_w)), visible |-> Resized(size, screen_w)]

\* overlay_image on the image at hand
ShowImage ==
    /\ pc = "overlay_image"
    /\ ~img.shown
    /\ img' = [img EXCEPT !.pad = OverlayGeometry(img.size, img.screen_w).pad,
                          !.visible = OverlayGeometry(img.size, img.screen_w).visible,
                          !.shown = TRUE]
    /\ UNCHANGED <<config, gpio, camera, now, fs, pc, frame, released, opened, hist>>

\* ------------------------------------------------------- import of camera.py
\* the first required key the file lacks, in the order of lines 70-84
FirstMissing(cfg) ==
    IF \A k \in 1..Len(RequiredKeys) : RequiredKeys[k] \in DOMAIN cfg
    THEN None
    ELSE RequiredKeys[CHOOSE k \in 1..Len(RequiredKeys) :
                         /\ RequiredKeys[k] \notin DOMAIN cfg
                         /\ \A j \in 1..(k - 1) : RequiredKeys[j] \in DOMAIN cfg]

\* lines 67-104: the required keys are bound, a missing one is reported and
\* the process exits (sys.exit, line 93); COPY_IMAGES_TO is optional
LoadConfig ==
    /\ pc = "config"
    /\ IF FirstMissing(CONFIG) = None
       THEN /\ TOTAL_PICS' = CONFIG["TOTAL_PICS"]
            /\ COUNTDOWN' = CONFIG["COUNTDOWN"]
            /\ PREP_DELAY' = CONFIG["PREP_DELAY"]
            /\ TESTMODE_AUTOPRESS_BUTTON' = CONFIG["TESTMODE_AUTOPRESS_BUTTON"]
            /\ PROPOSE_GPU_EFFECTS' = CONFIG["PROPOSE_GPU_EFFECTS"]
            /\ COPY_IMAGES_TO' = IF "COPY_IMAGES_TO" \in DOMAIN CONFIG
                                 THEN CONFIG["COPY_IMAGES_TO"]
                                 ELSE <<>>
            /\ pc' = "setup"
       ELSE /\ pc' = "aborted"
            /\ UNCHANGED <<TOTAL_PICS, COUNTDOWN, PREP_DELAY, TESTMODE_AUTOPRESS_BUTTON,
                           PROPOSE_GPU_EFFECTS, COPY_IMAGES_TO>>
    /\ UNCHANGED <<CONFIG, gpio, camera, now, fs, frame, process, hist>>

\* lines 110-120: the GPIO pins are set up and the camera is opened
SetupObjects ==
    /\ pc = "setup"
    /\ opened' = {"gpio", "camera"}
    /\ image_effect' = "sketch"
    /\ pc' = "awb"
    /\ UNCHANGED <<config, gpio, overlays, preview, now, fs, frame,
                   released, img, hist>>

\* line 121: CAMERA.awb_mode = CONFIG['AWB_MODE'], outside any try block: a
\* missing key is an uncaught KeyError, which ends the process where it is
SetAwbMode ==
    /\ pc = "awb"
    /\ pc' = IF "AWB_MODE" \in DOMAIN CONFIG THEN "start" ELSE "crashed"
    /\ UNCHANGED <<config, gpio, camera, now, fs, frame, process, hist>>

\* -------------------------------------------------------------- main()
\* health_test_required_folders, lines 127-128: the raw folder, then the
\* archive folders
FoldersList(copy_to) == <<RawFolder>> \o copy_to

\* lines 131-135: the folders the loop finds in folders_checked already; it
\* prints an error for each and goes on
UsedTwice(folders_list) ==
    {folders_list[k] : k \in {n \in 1..Len(folders_list) :
                                 \E j \in 1..(n - 1) : folders_list[j] = folders_list[n]}}

\* lines 297-323: the folders are checked (a folder used twice is reported,
\* nothing more), then intro overlays, preview, edge detection
MainStart ==
    /\ pc = "start"
    /\ IF CanArm
       THEN /\ overlays' = WithIntro(overlays)
            /\ frame' = [frame EXCEPT !.overlay_1 = NextHandle(overlays),
                                      !.overlay_2 = NextHandle(WithIntro1(overlays)),
                                      !.i = 0]
            /\ preview' = TRUE
            /\ armed' = [p \in Pins |-> TRUE]
            /\ pc' = "loop"
            /\ hist' = [hist EXCEPT !.introShown = @ + 1, !.armings = @ + 1,
                                    !.folderErrors = UsedTwice(FoldersList(COPY_IMAGES_TO))]
       ELSE /\ Leave("Exception")
            /\ hist' = [hist EXCEPT !.endedBy = "error",
                                    !.folderErrors = UsedTwice(FoldersList(COPY_IMAGES_TO))]
            /\ UNCHANGED <<overlays, preview, armed>>
    /\ UNCHANGED <<config, level, latch, image_effect, now, fs, process>>

\* DecideBranch with the auto-press override and the photo button looked at
\* before the exit button
DecideBranch_PhotoFirst(exit_pressed, photo_pressed, autopress) ==
    IF (IF autopress THEN PyTrue ELSE photo_pressed) # None THEN "pressed"
    ELSE IF exit_pressed # None THEN "exit"
    ELSE "idle"

\* which way a WAITING tick goes (lines 339-346): the exit check comes first,
\* then the auto-press override, then the photo button
DecideBranch(exit_pressed, photo_pressed, autopress) ==
    IF exit_pressed # None THEN "exit"
    ELSE IF (IF autopress THEN PyTrue ELSE photo_pressed) = None THEN "idle"
    ELSE "pressed"

\* Debounced without the second look at the pin: the latched edge is trusted
Debounced_EdgeOnly(pinLevel, before) == PyTrue

\* the outcome of a debounce sample (lines 331-332, 336-337, 373-374): pressed
\* only if the pin still reads 0
Debounced(pinLevel, before) == IF pinLevel = 0 THEN PyTrue ELSE before

\* lines 349-354: the blink counter and the alpha of the second intro overlay
BlinkI(n) == IF n + 1 = 2 * blink_speed THEN 0 ELSE n + 1

BlinkAlpha(n, alpha) ==
    IF n + 1 = blink_speed THEN 255
    ELSE IF n + 1 = 2 * blink_speed THEN 0
    ELSE alpha

SetAlpha(ovs, h, n) ==
    {IF o.id = h THEN [o EXCEPT !.alpha = BlinkAlpha(n, o.alpha)] ELSE o : o \in ovs}

\* lines 339-368, the rest of a tick once both buttons are polled, with f the
\* locals and h the history so far:
\*   exit pressed: main() returns (lines 339-340);
\*   nothing pressed: blink, sleep(0.1), next tick (lines 346-358);
\*   pressed, or auto-press set (lines 342-343, 360-368): the intro overlays go,
\*   the effect is switched off, and the GPU window opens if configured
Decide(f, h) ==
    LET branch == DecideBranch(f.exit_button_is_pressed, f.photo_button_is_pressed,
                               TESTMODE_AUTOPRESS_BUTTON)
    IN IF branch = "exit"
       THEN /\ Leave(None)
            /\ hist' = [h EXCEPT !.endedBy = "exit"]
            /\ UNCHANGED <<overlays, image_effect>>
       ELSE IF branch = "idle"
       THEN /\ frame' = [f EXCEPT !.i = BlinkI(@)]
            /\ overlays' = SetAlpha(overlays, f.overlay_2, f.i)
            /\ pc' = "loop"
            /\ hist' = h
            /\ UNCHANGED image_effect
       ELSE /\ frame' = [f EXCEPT !.photo_button_is_pressed = PyTrue, !.ticks = 0]
            /\ overlays' = RemoveOverlay(RemoveOverlay(overlays, f.overlay_2),
                                         f.overlay_1)
            /\ image_effect' = "none"
            /\ hist' = [h EXCEPT !.introRemoved = @ + 1]
            /\ pc' = IF PROPOSE_GPU_EFFECTS THEN "gpuLoop" ELSE "silence"

\* lines 334-335: GPIO.event_detected reads and clears the exit latch; with
\* no edge latched the tick goes on to its decision without a pause
PollExit(f, h, l) ==
    IF l[EXIT_BUTTON_PIN]
    THEN /\ latch' = [l EXCEPT ![EXIT_BUTTON_PIN] = FALSE]
         /\ frame' = f
         /\ hist' = h
         /\ pc' = "exitDebounce"
         /\ UNCHANGED <<overlays, image_effect>>
    ELSE /\ latch' = l
         /\ Decide(f, h)

\* lines 326-330: a new tick starts; with an edge latched on the capture pin
\* it sleeps DEBOUNCE_TIME, otherwise it goes on to the exit button
PollCamera ==
    /\ pc = "loop"
    /\ LET f == [frame EXCEPT !.photo_button_is_pressed = None,
                              !.exit_button_is_pressed = None]
           h == [hist EXCEPT !.sample = [p \in Pins |-> 2]]
       IN IF latch[CAMERA_BUTTON_PIN]
          THEN /\ latch' = [latch EXCEPT ![CAMERA_BUTTON_PIN] = FALSE]
               /\ frame' = f
               /\ hist' = h
               /\ pc' = "camDebounce"
               /\ UNCHANGED <<overlays, image_effect>>
          ELSE PollExit(f, h, latch)
    /\ UNCHANGED <<config, level, armed, preview, now, fs, process>>

\* lines 331-338: after sleep(DEBOUNCE_TIME) the capture pin is read; then the
\* exit button is polled
CamSample ==
    /\ pc = "camDebounce"
    /\ PollExit([frame EXCEPT !.photo_button_is_pressed =
                                  Debounced(level[CAMERA_BUTTON_PIN], @)],
                [hist EXCEPT !.sample[CAMERA_BUTTON_PIN] = level[CAMERA_BUTTON_PIN],
                             !.firstSample = IF @ = 2 THEN level[CAMERA_BUTTON_PIN]
                                             ELSE @],
                latch)
    /\ UNCHANGED <<config, level, armed, preview, now, fs, process>>

\* lines 336-368: after sleep(DEBOUNCE_TIME) the exit pin is read; then the
\* tick decides
ExitSample ==
    /\ pc = "exitDebounce"
    /\ Decide([frame EXCEPT !.exit_button_is_pressed =
                                Debounced(level[EXIT_BUTTON_PIN], @)],
              [hist EXCEPT
                 !.sample[EXIT_BUTTON_PIN] = level[EXIT_BUTTON_PIN],
                 !.exitSnap = IF level[EXIT_BUTTON_PIN] = 0
                              THEN [taken |-> TRUE, introRemoved |-> hist.introRemoved,
                                    shots |-> hist.shots, sessions |-> hist.sessions]
                              ELSE @])
    /\ UNCHANGED <<config, gpio, preview, now, fs, process>>

\* WindowExit with an unconfirmed window cancelling the session
WindowExit_TimeoutCancels(confirmed) == IF confirmed THEN "silence" ELSE "loop"

\* lines 369, 377, 380: where main() goes when the GPU-effect window is over,
\* by the break of a confirmed press or by the 2.0 s running out: on to
\* line 381 in both cases
WindowExit(confirmed) == "silence"

\* lines 369-371, 375, 378: one round of the GPU-effect window
GpuPoll ==
    /\ pc = "gpuLoop"
    /\ IF frame.ticks >= MaxGpuTicks
       THEN /\ pc' = WindowExit(FALSE)
            /\ UNCHANGED <<frame, latch>>
       ELSE IF latch[CAMERA_BUTTON_PIN]
       THEN /\ latch' = [latch EXCEPT ![CAMERA_BUTTON_PIN] = FALSE]
            /\ frame' = [frame EXCEPT !.photo_button_is_pressed = None]
            /\ pc' = "gpuDebounce"
       ELSE /\ frame' = [frame EXCEPT !.photo_button_is_pressed = None,
                                      !.ticks = @ + 1]
            /\ pc' = "gpuLoop"
            /\ UNCHANGED latch
    /\ hist' = [hist EXCEPT !.gpuSample = IF frame.ticks >= MaxGpuTicks THEN @ ELSE 2]
    /\ UNCHANGED <<config, level, armed, camera, now, fs, process>>

\* lines 373-378: the debounce sample inside the window; a confirmed press
\* restores the effect and breaks
GpuSample ==
    /\ pc = "gpuDebounce"
    /\ hist' = [hist EXCEPT !.gpuSample = level[CAMERA_BUTTON_PIN]]
    /\ LET pressed == Debounced(level[CAMERA_BUTTON_PIN], frame.photo_button_is_pressed)
       IN IF pressed = PyTrue
          THEN /\ frame' = [frame EXCEPT !.photo_button_is_pressed = PyTrue]
               /\ image_effect' = "sketch"
               /\ pc' = WindowExit(TRUE)
          ELSE /\ frame' = [frame EXCEPT !.ticks = @ + 1]
               /\ pc' = "gpuLoop"
               /\ UNCHANGED image_effect
    /\ UNCHANGED <<config, gpio, overlays, preview, now, fs, process>>

\* taking_photo, line 241: the file name of photo photo_number
TakingPhotoFilename(filename_prefix, photo_number) ==
    filename_prefix \o <<"_">> \o Str(photo_number) \o <<"of">>
        \o Str(TOTAL_PICS) \o <<".jpg">>

\* playback_screen, line 270: the montage's path
MontagePath(filename_prefix) == filename_prefix \o <<".jpg">>

\* PrefixFor with the base file name computed again for every photo
PrefixFor_Recomputed(session_prefix, t) == BaseFilename(t, FALSE)

\* the prefix the session uses for photo photo_number: the one main() got
\* once, at line 385
PrefixFor(session_prefix, t) == session_prefix

\* Silenced with the pending edges surviving the session
Silenced_KeepPending(l) == l

\* lines 381-382: the latches once GPIO.remove_event_detect has been called on
\* both pins: an edge seen and not yet polled is dropped with the detection
Silenced(l) == [p \in Pins |-> FALSE]

\* Disarm with the exit pin forgotten
Disarm_CameraOnly(a) == [a EXCEPT ![CAMERA_BUTTON_PIN] = FALSE]

\* lines 381-382: edge detection after GPIO.remove_event_detect on both pins
Disarm(a) == [p \in Pins |-> FALSE]

\* lines 380-389: edge detection off, the session's base file name, the
\* first photo
Silence ==
    /\ pc = "silence"
    /\ armed' = Disarm(armed)
    /\ latch' = Silenced(latch)
    /\ \E micro \in BOOLEAN :
          frame' = [frame EXCEPT !.filename_prefix = BaseFilename(now, micro),
                                 !.photo_filenames = <<>>,
                                 !.photo_number = 1]
    /\ hist' = [hist EXCEPT !.sessions = @ + 1, !.captured = <<>>, !.montages = 0,
                            !.copied = {}, !.copyFailed = FALSE, !.steps = <<>>,
                            !.sample = [p \in Pins |-> 2], !.gpuSample = 2]
    /\ pc' = "prep"
    /\ UNCHANGED <<config, level, camera, now, fs, process>>

\* the record of one thing done for a photo
Step(kind, what) == <<kind, what>>

\* the records of the overlays a step took off the screen
Hidden(before, after) ==
    IF before \subseteq after THEN <<>>
    ELSE <<Step("hide", (CHOOSE o \in before \ after : TRUE).image)>>

PrepImage(photo_number) == <<"assets/get_ready_">> \o Str(photo_number) \o <<".png">>

CountdownImage(counter) == <<"assets/countdown_">> \o Str(counter) \o <<".png">>

\* lines 390-391 (prep_for_photo_screen): the prep overlay, held PREP_DELAY
PrepShow ==
    /\ pc = "prep"
    /\ overlays' = OverlayImage(overlays, NextHandle(overlays),
                                PrepImage(frame.photo_number), 5)
    /\ frame' = [frame EXCEPT !.ol_id = NextHandle(overlays)]
    /\ now' = now + PREP_DELAY
    /\ hist' = [hist EXCEPT !.steps = <<Step("show", PrepImage(frame.photo_number)),
                                        Step("sleep", Str(PREP_DELAY))>>]
    /\ pc' = "prepHold"
    /\ UNCHANGED <<config, gpio, image_effect, preview, fs, process>>

\* lines 392, 241, 244: the prep overlay goes; taking_photo starts
PrepRemove ==
    /\ pc = "prepHold"
    /\ overlays' = RemoveOverlay(overlays, frame.ol_id)
    /\ frame' = [frame EXCEPT
                   !.filename = TakingPhotoFilename(
                                    PrefixFor(frame.filename_prefix, now),
                                    frame.photo_number),
                   !.counter = COUNTDOWN]
    /\ hist' = [hist EXCEPT
                  !.steps = @ \o Hidden(overlays, RemoveOverlay(overlays, frame.ol_id))]
    /\ pc' = "countdown"
    /\ UNCHANGED <<config, gpio, image_effect, preview, now, fs, process>>

\* CountdownLeft with the range stopping one value early
CountdownLeft_StopsAtTwo(counter) == counter > 1

\* line 244: range(COUNTDOWN, 0, -1) has a value left for the loop
CountdownLeft(counter) == counter > 0

\* lines 244-248, 251: the next countdown overlay for one second, or, the
\* countdown over, the half-second settle delay
CountdownShow ==
    /\ pc = "countdown"
    /\ IF CountdownLeft(frame.counter)
       THEN /\ overlays' = OverlayImage(overlays, NextHandle(overlays),
                                       CountdownImage(frame.counter), 5)
            /\ frame' = [frame EXCEPT !.countdown_overlay = NextHandle(overlays)]
            /\ now' = now + 1
            /\ hist' = [hist EXCEPT
                          !.steps = @ \o <<Step("show", CountdownImage(frame.counter)),
                                           Step("sleep", Str(1))>>]
            /\ pc' = "countHold"
       ELSE /\ pc' = "capture"
            /\ hist' = [hist EXCEPT !.steps = Append(@, Step("sleep", <<"0", ".", "5">>))]
            /\ UNCHANGED <<overlays, frame, now>>
    /\ UNCHANGED <<config, gpio, image_effect, preview, fs, process>>

\* line 249
CountdownRemove ==
    /\ pc = "countHold"
    /\ overlays' = RemoveOverlay(overlays, frame.countdown_overlay)
    /\ frame' = [frame EXCEPT !.counter = @ - 1]
    /\ hist' = [hist EXCEPT
                  !.steps = @ \o Hidden(overlays,
                                        RemoveOverlay(overlays, frame.countdown_overlay))]
    /\ pc' = "countdown"
    /\ UNCHANGED <<config, gpio, image_effect, preview, now, fs, process>>

\* MorePhotos with the loop bound off by one
MorePhotos_OneTooMany(photo_number) == photo_number <= TOTAL_PICS

\* the photo loop of main() goes on while photo_number <= TOTAL_PICS
MorePhotos(photo_number) == photo_number < TOTAL_PICS

\* lines 254-257, 394, 389: the annotation text is cleared, the still is
\* captured and its name kept
Capture ==
    /\ pc = "capture"
    /\ fs' = WriteFile(fs, frame.filename, [kind |-> "still", shots |-> {hist.shots + 1}])
    /\ frame' = [frame EXCEPT !.photo_filenames = Append(@, frame.filename),
                              !.photo_number = @ + 1]
    /\ hist' = [hist EXCEPT !.captured = Append(@, frame.filename), !.shots = @ + 1,
                            !.steps = @ \o <<Step("annotate", <<>>),
                                             Step("capture", frame.filename)>>]
    /\ pc' = IF MorePhotos(frame.photo_number) THEN "prep" ELSE "playback"
    /\ UNCHANGED <<config, gpio, camera, now, process>>

\* the list playback_screen shows and main() archives afterwards: line 271
\* appends the montage to the caller's list
WithMontage(photo_filenames, montage) == Append(photo_filenames, montage)

ProcessingImage == <<"assets/processing.png">>

FinishedImage == <<"assets/all_done_delayed_upload.png">>

\* lines 278-281: how long a slide is held
SlideSeconds(filename, montage) == IF filename = montage THEN 6 ELSE 2

\* lines 264-272: the processing overlay, the montage command (which may
\* fail, leaving no file), the montage appended to the list
PlaybackStart ==
    /\ pc = "playback"
    /\ overlays' = OverlayImage(overlays, NextHandle(overlays), ProcessingImage, 4)
    /\ LET montage == MontagePath(frame.filename_prefix)
           shown == UNION {fs[q].shots : q \in Glob(frame.filename_prefix)}
       IN /\ \E ok \in BOOLEAN :
                fs' = IF ok
                      THEN WriteFile(fs, montage, [kind |-> "montage", shots |-> shown])
                      ELSE fs
          /\ frame' = [frame EXCEPT
                         !.prev_overlay = NextHandle(overlays),
                         !.montage = montage,
                         !.photo_filenames = WithMontage(@, montage),
                         !.idx = 1]
    /\ hist' = [hist EXCEPT !.montages = @ + 1,
                            !.steps = <<Step("show", ProcessingImage),
                                        Step("montage", MontagePath(frame.filename_prefix))>>]
    /\ pc' = "slide"
    /\ UNCHANGED <<config, gpio, image_effect, preview, now, process>>

\* lines 273-281: the next image of the list is shown (Image.open raises on a
\* missing file), then the previous overlay is removed, then it is held
SlideShow ==
    /\ pc = "slide"
    /\ LET filename == frame.photo_filenames[frame.idx]
       IN IF Exists(filename)
          THEN /\ LET shown == OverlayImage(overlays, NextHandle(overlays), filename, 6)
                      after == IF Truthy(frame.prev_overlay)
                               THEN RemoveOverlay(shown, frame.prev_overlay)
                               ELSE shown
                  IN /\ overlays' = after
                     /\ hist' = [hist EXCEPT
                                   !.steps = @ \o <<Step("show", filename)>>
                                               \o Hidden(shown, after)
                                               \o <<Step("sleep",
                                                         Str(SlideSeconds(filename,
                                                                          frame.montage)))>>]
               /\ frame' = [frame EXCEPT !.this_overlay = NextHandle(overlays)]
               /\ now' = now + SlideSeconds(filename, frame.montage)
               /\ pc' = "slideHold"
          ELSE /\ Leave("Exception")
               /\ hist' = [hist EXCEPT !.endedBy = "error"]
               /\ UNCHANGED <<overlays, now>>
    /\ UNCHANGED <<config, gpio, image_effect, preview, fs, process>>

\* lines 282, 273
SlideNext ==
    /\ pc = "slideHold"
    /\ frame' = [frame EXCEPT !.prev_overlay = frame.this_overlay,
                              !.idx = @ + 1]
    /\ pc' = IF frame.idx < Len(frame.photo_filenames) THEN "slide" ELSE "finish"
    /\ UNCHANGED <<config, gpio, camera, now, fs, process, hist>>

\* lines 286-290, 397-401: the finished overlay, the last slide removed,
\* sleep(2), and the archive loops start
Finish ==
    /\ pc = "finish"
    /\ LET shown == OverlayImage(overlays, NextHandle(overlays), FinishedImage, 5)
       IN /\ overlays' = RemoveOverlay(shown, frame.prev_overlay)
          /\ hist' = [hist EXCEPT
                        !.steps = @ \o <<Step("show", FinishedImage)>>
                                    \o Hidden(shown, RemoveOverlay(shown, frame.prev_overlay))]
    /\ frame' = [frame EXCEPT !.ol_done = NextHandle(overlays), !.dest = 1, !.src = 1]
    /\ now' = now + 2
    /\ pc' = IF COPY_IMAGES_TO = <<>> THEN "endCycle" ELSE "archive"
    /\ UNCHANGED <<config, gpio, image_effect, preview, fs, process>>

\* CopyTarget keeping the source's folders in the target name
CopyTarget_FullPath(src, dest) == dest \o <<"/">> \o src

\* shutil.copy2(src, dest) with dest a folder: the file lands in the folder
\* under the name it has
CopyTarget(src, dest) == dest \o <<"/">> \o Basename(src)

\* the files main() archives (line 402): its photo_filenames list
Archived(photo_filenames) == photo_filenames

\* lines 401-404: one copy2 call that succeeds, and the step to the next
\* (destination, file) pair
CopyOne ==
    /\ pc = "archive"
    /\ LET dest == COPY_IMAGES_TO[frame.dest]
           files == Archived(frame.photo_filenames)
           src == files[frame.src]
       IN /\ CopyTarget(src, dest) # src
          /\ fs' = WriteFile(fs, CopyTarget(src, dest), fs[src])
          /\ hist' = [hist EXCEPT !.copied = @ \cup {<<dest, src>>}]
          /\ IF frame.src < Len(files)
             THEN /\ frame' = [frame EXCEPT !.src = @ + 1]
                  /\ pc' = "archive"
             ELSE IF frame.dest < Len(COPY_IMAGES_TO)
             THEN /\ frame' = [frame EXCEPT !.dest = @ + 1, !.src = 1]
                  /\ pc' = "archive"
             ELSE /\ pc' = "endCycle"
                  /\ UNCHANGED frame
    /\ UNCHANGED <<config, gpio, camera, now, process>>

\* what main() does when a copy2 call raises: nothing catches it inside the
\* loops, so it leaves main()
CopyFailed(kind) == Leave(kind)

\* line 404: a copy2 call that raises: source and target are the same file
\* (SameFileError), or the copy itself fails (OSError)
CopyFail ==
    /\ pc = "archive"
    /\ LET dest == COPY_IMAGES_TO[frame.dest]
           src == Archived(frame.photo_filenames)[frame.src]
       IN hist' = [hist EXCEPT !.copied = @ \cup {<<dest, src>>},
                               !.copyFailed = TRUE, !.endedBy = "error"]
    /\ CopyFailed("Exception")
    /\ UNCHANGED <<config, gpio, camera, now, fs, process>>

\* TestRunEnds without the break
TestRunEnds_Never(autopress) == FALSE

\* lines 407-408: a test run breaks out of the loop after its one cycle
TestRunEnds(autopress) == autopress

\* lines 406-416: a test run ends here; otherwise the intro overlays come
\* back, the finished overlay goes, and edge detection is armed again
EndCycle ==
    /\ pc = "endCycle"
    /\ IF TestRunEnds(TESTMODE_AUTOPRESS_BUTTON)
       THEN /\ Leave(None)
            /\ hist' = [hist EXCEPT !.completed = @ + 1, !.endedBy = "test"]
            /\ UNCHANGED <<overlays, armed>>
       ELSE IF CanArm
       THEN /\ overlays' = RemoveOverlay(WithIntro(overlays), frame.ol_done)
            /\ frame' = [frame EXCEPT !.overlay_1 = NextHandle(overlays),
                                      !.overlay_2 = NextHandle(WithIntro1(overlays))]
            /\ armed' = [p \in Pins |-> TRUE]
            /\ pc' = "loop"
            /\ hist' = [hist EXCEPT !.completed = @ + 1, !.introShown = @ + 1,
                                    !.armings = @ + 1]
       ELSE /\ Leave("Exception")
            /\ hist' = [hist EXCEPT !.completed = @ + 1, !.endedBy = "error"]
            /\ UNCHANGED <<overlays, armed>>
    /\ UNCHANGED <<config, level, latch, image_effect, preview, now, fs, process>>

\* ------------------------------------------------- the top-level try block
\* lines 419-426: an exception, or a keyboard interrupt, raised anywhere in
\* main() unwinds it; the matching except clause prints
Raise ==
    /\ pc \in MainPcs
    /\ \E kind \in {"Exception", "KeyboardInterrupt"} : Leave(kind)
    /\ hist' = [hist EXCEPT !.endedBy = "error"]
    /\ UNCHANGED <<config, gpio, camera, now, fs, process>>

\* lines 428-432: the finally block: stop the preview, close the camera
\* (its overlays go with it), release the GPIO pins, exit
Cleanup ==
    /\ pc = "finally"
    /\ preview' = FALSE
    /\ overlays' = {}
    /\ armed' = [p \in Pins |-> FALSE]
    /\ latch' = [p \in Pins |-> FALSE]
    /\ released' = released + 1
    /\ opened' = {}
    /\ pc' = "exited"
    /\ UNCHANGED <<config, level, image_effect, now, fs, frame, img, hist>>

Next ==
    \/ \E p \in Pins : Press(p)
    \/ \E p \in Pins : Release(p)
    \/ LoadConfig
    \/ SetupObjects
    \/ SetAwbMode
    \/ MainStart
    \/ PollCamera
    \/ CamSample
    \/ ExitSample
    \/ GpuPoll
    \/ GpuSample
    \/ Silence
    \/ PrepShow
    \/ PrepRemove
    \/ CountdownShow
    \/ CountdownRemove
    \/ Capture
    \/ PlaybackStart
    \/ SlideShow
    \/ SlideNext
    \/ Finish
    \/ CopyOne
    \/ CopyFail
    \/ EndCycle
    \/ Raise
    \/ Cleanup

Spec == Init /\ [][Next]_vars

\* overlay_image alone, on images of every size up to MaxW x MaxH, for a
\* screen as wide as the widest image and one half as wide
PadInit ==
    /\ CONFIG = ConfigFile(1, 1, 1, FALSE, FALSE, <<>>)
    /\ TOTAL_PICS = 1
    /\ COUNTDOWN = 1
    /\ PREP_DELAY = 1
    /\ TESTMODE_AUTOPRESS_BUTTON = FALSE
    /\ PROPOSE_GPU_EFFECTS = FALSE
    /\ COPY_IMAGES_TO = <<>>
    /\ level = [p \in Pins |-> 1]
    /\ armed = [p \in Pins |-> FALSE]
    /\ latch = [p \in Pins |-> FALSE]
    /\ overlays = {}
    /\ image_effect = "sketch"
    /\ preview = FALSE
    /\ now = 0
    /\ fs = <<>>
    /\ pc = "overlay_image"
    /\ frame = Frame0
    /\ released = 0
    /\ opened = {"gpio", "camera"}
    /\ hist = Hist0
    /\ \E w \in 1..MaxW, h \in 1..MaxH, screen_w \in ScreenWidths :
          img = [NoImage EXCEPT !.size = <<w, h>>, !.screen_w = screen_w]

PadNext == ShowImage

PadSpec == PadInit /\ [][PadNext]_vars

\* ============================================================ properties
Range(seq) == {seq[k] : k \in 1..Len(seq)}

SessionPcs == {"prep", "prepHold", "countdown", "countHold", "capture", "playback",
               "slide", "slideHold", "finish", "archive", "endCycle"}

\* <base>_<n>of<N>.jpg, written out
PhotoName(base, n) ==
    base \o <<"_">> \o Str(n) \o <<"of">> \o Str(TOTAL_PICS) \o <<".jpg">>

\* C1: a session that has run to the end of its archive loops made exactly
\* TOTAL_PICS captures and ran the montage command once, and the raw folder
\* holds exactly TOTAL_PICS stills and one montage under the session's base.
C1_SessionOutput ==
    pc = "endCycle" =>
        /\ Len(hist.captured) = TOTAL_PICS
        /\ hist.montages = 1
        /\ Cardinality({q \in Glob(frame.filename_prefix) : fs[q].kind = "still"})
               = TOTAL_PICS
        /\ Cardinality({q \in Glob(frame.filename_prefix) : fs[q].kind = "montage"}) = 1
        /\ Cardinality(Glob(frame.filename_prefix)) = TOTAL_PICS + 1

C1_Witness ==
    pc = "endCycle" /\ TOTAL_PICS = 2 /\ hist.sessions = 2 /\ Len(hist.captured) = 2

\* C2: once a tick has read the exit button as pressed, main() has returned
\* in that tick: no intro overlay was removed, no session started and no
\* photo taken since the sample, whatever the capture button and the
\* auto-press flag say.
C2_ExitFirst ==
    hist.exitSnap.taken =>
        /\ pc \in {"finally", "exited"}
        /\ hist.endedBy = "exit"
        /\ hist.introRemoved = hist.exitSnap.introRemoved
        /\ hist.sessions = hist.exitSnap.sessions
        /\ hist.shots = hist.exitSnap.shots

C2_Witness ==
    /\ hist.exitSnap.taken
    /\ hist.sample[CAMERA_BUTTON_PIN] = 0
    /\ TESTMODE_AUTOPRESS_BUTTON
    /\ pc = "exited"

\* C3: a debounce sample that reads the pin inactive (1) registers nothing:
\* the photo flag stays None, and without the auto-press flag the machine is
\* ARMED or starts a session only after a sample that read 0; main() is ended
\* by the exit button only after a sample that read 0; in the GPU window a
\* sample that read 1 leaves the effect off, and the effect is restored only
\* after a sample that read 0.
C3_Debounce ==
    /\ (pc = "exitDebounce" /\ hist.sample[CAMERA_BUTTON_PIN] = 1)
           => frame.photo_button_is_pressed = None
    /\ (~TESTMODE_AUTOPRESS_BUTTON /\ pc \in {"gpuLoop", "gpuDebounce", "silence"})
           => hist.sample[CAMERA_BUTTON_PIN] = 0
    /\ hist.endedBy = "exit" => hist.sample[EXIT_BUTTON_PIN] = 0
    /\ (pc \in MainPcs /\ hist.gpuSample = 1) => image_effect = "none"
    /\ (pc \in {"gpuLoop", "gpuDebounce", "silence"} /\ image_effect = "sketch")
           => hist.gpuSample = 0

C3_Witness ==
    /\ pc = "loop"
    /\ hist.sample[CAMERA_BUTTON_PIN] = 1
    /\ hist.sample[EXIT_BUTTON_PIN] = 1
    /\ hist.sessions = 0
    /\ hist.endedBy = "running"

\* the capture button fell at least twice, every time before the first
\* debounce sample of the pin was over
Burst == hist.edges[CAMERA_BUTTON_PIN] >= 2 /\ hist.lateCamEdges = 0

\* C4: capture-button edges that all fall before the first debounce interval
\* is over start at most one session, and exactly one when that sample reads
\* the button pressed, with or without the GPU-effect window.
C4_OnePress ==
    (~TESTMODE_AUTOPRESS_BUTTON /\ Burst) =>
        /\ hist.sessions <= 1
        /\ (hist.firstSample = 0 /\ (pc \in SessionPcs \/ hist.completed >= 1))
               => hist.sessions = 1

C4_Witness ==
    /\ ~TESTMODE_AUTOPRESS_BUTTON
    /\ Burst
    /\ hist.completed = 1
    /\ hist.sessions = 1
    /\ hist.firstSample = 0
    /\ pc = "loop"
    /\ frame.i = 1
    /\ level[CAMERA_BUTTON_PIN] = 0

\* C5: however main() ends (exit button, end of a test run, an exception or
\* an interrupt at any position), it never runs again, and the hardware is
\* released exactly once, by the finally block, which can always run: not
\* before the process has passed it, once after.
C5_CleanupOnce ==
    /\ hist.endedBy # "running" => pc \in {"finally", "exited"}
    /\ pc \in {"finally", "exited"} => hist.endedBy # "running"
    /\ pc = "finally" => ENABLED Cleanup
    /\ pc = "exited" => (released = 1 /\ ~preview /\ \A p \in Pins : ~armed[p])
    /\ pc # "exited" => released = 0

C5_Witness ==
    /\ pc = "exited"
    /\ hist.endedBy = "error"
    /\ hist.sessions = 1
    /\ Len(hist.captured) = 1
    /\ TOTAL_PICS = 2
    /\ released = 1

\* the photo files of the current session, as the spec names them
SessionPhotos == {PhotoName(frame.filename_prefix, n) : n \in 1..TOTAL_PICS}

\* C6 (as claimed): when the archive loops are over, what was copied into
\* each destination is exactly the session's TOTAL_PICS photo files, and the
\* archived list has TOTAL_PICS entries.
C6_ArchiveRawOnly ==
    pc = "endCycle" =>
        /\ Len(Archived(frame.photo_filenames)) = TOTAL_PICS
        /\ \A d \in Range(COPY_IMAGES_TO) :
               {c[2] : c \in {x \in hist.copied : x[1] = d}} = SessionPhotos

\* the part of a raw-folder path after "<raw folder>/"
NameOf(path) == SubSeq(path, Len(RawFolder) + 2, Len(path))

\* C7: when the archive loops are over, every captured file of the session
\* is in every destination folder under its own name, with the content of
\* its source.
C7_ArchiveTotal ==
    pc = "endCycle" =>
        \A d \in Range(COPY_IMAGES_TO) : \A n \in 1..TOTAL_PICS :
            LET src == PhotoName(frame.filename_prefix, n)
                dst == d \o <<"/">> \o NameOf(src)
            IN /\ src \in DOMAIN fs
               /\ fs[src].kind = "still"
               /\ dst \in DOMAIN fs
               /\ fs[dst] = fs[src]

C7_Witness ==
    /\ pc = "endCycle"
    /\ COPY_IMAGES_TO = <<Dest2, Dest1>>
    /\ TOTAL_PICS = 2
    /\ hist.sessions = 2

\* C8 (as claimed): after a copy2 call has failed, every (destination,
\* captured file) pair of the session has still been attempted by the time
\* the process is over.
C8_CopyFailureIsolated ==
    (pc = "exited" /\ hist.copyFailed) =>
        \A d \in Range(COPY_IMAGES_TO) : \A f \in Range(hist.captured) :
            <<d, f>> \in hist.copied

AllPairs ==
    {<<COPY_IMAGES_TO[d], f>> : d \in 1..Len(COPY_IMAGES_TO),
                                f \in Range(hist.captured)}

\* C10: with the auto-press flag set the machine starts at most one session,
\* shows the intro overlays and arms edge detection once only, and is never
\* WAITING again after the cycle; a test run that ended by itself has made
\* TOTAL_PICS captures, one montage and every archive copy.
C10_SingleShot ==
    TESTMODE_AUTOPRESS_BUTTON =>
        /\ hist.sessions <= 1
        /\ hist.introShown <= 1
        /\ hist.armings <= 1
        /\ hist.completed >= 1 => pc \in {"endCycle", "finally", "exited"}
        /\ hist.endedBy = "test" =>
               /\ hist.sessions = 1
               /\ hist.completed = 1
               /\ Len(hist.captured) = TOTAL_PICS
               /\ hist.montages = 1
               /\ AllPairs \subseteq hist.copied
               /\ hist.introShown = 1
               /\ hist.armings = 1
               /\ \A p \in Pins : ~armed[p]

C10_Witness ==
    /\ TESTMODE_AUTOPRESS_BUTTON
    /\ hist.endedBy = "test"
    /\ pc = "exited"
    /\ TOTAL_PICS = 2
    /\ Len(COPY_IMAGES_TO) = 2

\* the keys the program cannot run without: it reads them with no fallback
NeededKeys == ConfigKeys \ {"COPY_IMAGES_TO"}

\* C11 (as claimed): with one of the keys the program needs missing from the
\* configuration, no hardware is ever touched (no GPIO pin set up, no camera
\* opened) and main() never runs, whichever key it is.
C11_FailFast ==
    (\E k \in NeededKeys : k \notin DOMAIN CONFIG) =>
        /\ opened = {}
        /\ pc \notin MainPcs

\* the images on screen at a layer
ImagesAt(layer) == {o.image : o \in {x \in overlays : x.layer = layer}}

\* C12 (as claimed): remove_overlay leaves the screen alone for the sentinel
\* -1 only, and whatever handle the compositor gave it, 0 included, an overlay
\* is off the screen once the program has replaced or retired it: the intro
\* overlays once the button is accepted, the prep and countdown overlays
\* before the still is taken, the processing overlay once the first slide is
\* up, each slide once the next is up, and the last slide once the finished
\* overlay is up.
C12_RemovalByHandle ==
    /\ RemoveOverlay(overlays, -1) = overlays
    /\ \A o \in overlays : RemoveOverlay(overlays, o.id) # overlays
    /\ pc \in {"gpuLoop", "gpuDebounce", "silence"} => ImagesAt(3) = {}
    /\ pc = "capture" => ImagesAt(5) = {}
    /\ pc = "slideHold" =>
           /\ ProcessingImage \notin ImagesAt(4)
           /\ ImagesAt(6) = {frame.photo_filenames[frame.idx]}
    /\ pc \in {"archive", "endCycle"} => ImagesAt(6) = {}

\* C13: for an image no wider than the screen, the buffer handed to the
\* compositor is, in each direction, the smallest multiple of the block size
\* (32 across, 16 down) that is not below the image's size, and the visible
\* size handed over is the image's own.
C13_Padding ==
    (img.shown /\ img.size[1] <= img.screen_w) =>
        /\ img.pad[1] % 32 = 0
        /\ img.pad[1] >= img.size[1]
        /\ img.pad[1] - 32 < img.size[1]
        /\ img.pad[2] % 16 = 0
        /\ img.pad[2] >= img.size[2]
        /\ img.pad[2] - 16 < img.size[2]
        /\ img.visible = img.size

C13_Witness ==
    /\ img.shown
    /\ img.size = <<64, 17>>
    /\ img.screen_w = MaxW
    /\ img.pad = <<64, 32>>
    /\ img.visible = <<64, 17>>

\* C14 (as claimed): while main() is past its folder check, the raw folder
\* and the archive folders are pairwise distinct: with a folder named twice
\* the machine is never WAITING, never in a session, never ARCHIVING.
C14_DistinctFolders ==
    pc \in MainPcs \ {"start"} =>
        \A j, k \in 1..Len(FoldersList(COPY_IMAGES_TO)) :
            j # k => FoldersList(COPY_IMAGES_TO)[j] # FoldersList(COPY_IMAGES_TO)[k]

PollingPcs == {"loop", "camDebounce", "exitDebounce", "gpuLoop", "gpuDebounce", "silence"}

\* C15: edge detection is armed on both pins at every position of WAITING
\* and of the ARMED window, up to the remove_event_detect calls that open
\* CAPTURING, and on neither pin from there to the end of ARCHIVING; each
\* WAITING phase was armed for (one arming per phase), add_event_detect
\* is only reached with both pins disarmed and remove_event_detect with both
\* armed.
C15_Arming ==
    /\ pc \in PollingPcs => \A p \in Pins : armed[p]
    /\ pc \in SessionPcs \cup {"start"} => \A p \in Pins : ~armed[p]
    /\ pc \in {"start", "endCycle"} => CanArm
    /\ pc \in PollingPcs => hist.armings = hist.completed + 1
    /\ pc \in SessionPcs => hist.armings = hist.sessions

C15_Witness ==
    /\ pc = "loop"
    /\ hist.completed = 1
    /\ hist.armings = 2
    /\ \A p \in Pins : armed[p]
    /\ ~latch[CAMERA_BUTTON_PIN]

RECURSIVE CountdownSteps(_)
\* the countdown from c: each value shown, held a second and hidden, in turn
CountdownSteps(c) ==
    IF c = 0 THEN <<>>
    ELSE <<Step("show", <<"assets/countdown_">> \o Str(c) \o <<".png">>),
           Step("sleep", <<"1">>),
           Step("hide", <<"assets/countdown_">> \o Str(c) \o <<".png">>)>>
             \o CountdownSteps(c - 1)

\* what the claim has done for photo n, up to and with its capture
PhotoSteps(n) ==
    <<Step("show", <<"assets/get_ready_">> \o Str(n) \o <<".png">>),
      Step("sleep", Str(PREP_DELAY)),
      Step("hide", <<"assets/get_ready_">> \o Str(n) \o <<".png">>)>>
        \o CountdownSteps(COUNTDOWN)
        \o <<Step("sleep", <<"0", ".", "5">>),
             Step("annotate", <<>>),
             Step("capture", PhotoName(frame.filename_prefix, n))>>

\* C16: what is done for photo n is, in this order: its prep overlay shown,
\* held PREP_DELAY, hidden; the countdown overlays COUNTDOWN, ..., 1, each
\* shown, held a second and hidden before the next; the settle delay; the
\* annotation cleared; the capture.  Nothing else happens in between, and
\* when the still is taken no prep or countdown overlay is on screen.
C16_PhotoSteps ==
    /\ pc \in {"prepHold", "countdown", "countHold", "capture"} =>
           /\ frame.photo_number \in 1..TOTAL_PICS
           /\ IsPrefix(hist.steps, PhotoSteps(frame.photo_number))
    /\ pc = "capture" =>
           /\ ImagesAt(5) = {}
           /\ Len(hist.steps) = Len(PhotoSteps(frame.photo_number)) - 2
    /\ (pc \in {"prep", "playback"} /\ hist.steps # <<>>) =>
           hist.steps = PhotoSteps(frame.photo_number - 1)

C16_Witness ==
    /\ pc = "playback"
    /\ TOTAL_PICS = 2
    /\ COUNTDOWN = 2
    /\ hist.steps = PhotoSteps(2)
    /\ Len(hist.steps) = 12

\* the k-th image of the slideshow: the photos in capture order, the montage last
SlideImage(k) ==
    IF k <= TOTAL_PICS THEN PhotoName(frame.filename_prefix, k)
    ELSE frame.filename_prefix \o <<".jpg">>

RECURSIVE SlideSteps(_)
\* slides 1..k as the claim has them: each shown, then the one before it (the
\* processing overlay before the first) hidden, then held
SlideSteps(k) ==
    IF k = 0 THEN <<>>
    ELSE SlideSteps(k - 1)
           \o <<Step("show", SlideImage(k)),
                Step("hide", IF k = 1 THEN ProcessingImage ELSE SlideImage(k - 1)),
                Step("sleep", IF k = TOTAL_PICS + 1 THEN <<"6">> ELSE <<"2">>)>>

PlaybackBegins ==
    <<Step("show", ProcessingImage), Step("montage", frame.filename_prefix \o <<".jpg">>)>>

PlaybackEnds == <<Step("show", FinishedImage), Step("hide", SlideImage(TOTAL_PICS + 1))>>

\* C17 (as claimed): from the processing overlay to the finished overlay the
\* screen always holds a playback overlay; every slide is shown before the
\* overlay it replaces is hidden, the photos in capture order and the montage
\* last; and once playback has returned, the finished overlay is the only
\* overlay on screen.
C17_Playback ==
    /\ pc \in {"slide", "slideHold", "finish"} =>
           ImagesAt(4) \cup ImagesAt(6) # {}
    /\ pc = "slideHold" =>
           hist.steps = PlaybackBegins \o SlideSteps(frame.idx)
    /\ pc \in {"archive", "endCycle"} =>
           /\ hist.steps = PlaybackBegins \o SlideSteps(TOTAL_PICS + 1) \o PlaybackEnds
           /\ {o.image : o \in overlays} = {FinishedImage}

ArmedPcs == {"gpuLoop", "gpuDebounce"}

\* how far the GPU-effect window has got: its rounds, and within a round
\* the debounce sample
WindowProgress == 2 * frame.ticks + (IF pc = "gpuDebounce" THEN 1 ELSE 0)

\* a step of main() leaves it through an exception or an interrupt
Unwound == hist.endedBy # "error" /\ hist'.endedBy = "error"

\* C18: once the capture button is accepted, every step of main() either
\* takes the GPU-effect window further (and it has MaxGpuTicks rounds at
\* most) or closes it, on a confirmed press or on timeout, and goes on to
\* the remove_event_detect calls and the first photo: never back to WAITING,
\* never to the end of main().  Only WAITING ends main() on the exit button,
\* whatever the button does during ARMED, CAPTURING, PLAYBACK and ARCHIVING.
C18_Proceeds ==
    [][/\ pc \in ArmedPcs =>
             \/ pc' = pc /\ frame' = frame
             \/ pc' \in ArmedPcs /\ WindowProgress' > WindowProgress
             \/ pc' = "silence"
             \/ Unwound
       /\ pc \in ArmedPcs => WindowProgress <= 2 * MaxGpuTicks + 1
       /\ pc = "silence" => (pc' \in {"silence", "prep"} \/ Unwound)
       /\ pc = "silence" /\ pc' = "prep" => hist'.sessions = hist.sessions + 1
       /\ (hist.endedBy # "exit" /\ hist'.endedBy = "exit") =>
             pc \in {"loop", "camDebounce", "exitDebounce"}
       /\ (pc \in MainPcs /\ pc' \notin MainPcs /\ Phase(pc) # "WAITING") =>
             hist'.endedBy \in {"error", "test"}]_vars

C18_Witness ==
    /\ ~TESTMODE_AUTOPRESS_BUTTON
    /\ PROPOSE_GPU_EFFECTS
    /\ pc = "prep"
    /\ hist.sessions = 1
    /\ image_effect = "none"
    /\ level[EXIT_BUTTON_PIN] = 0
    /\ hist.edges[EXIT_BUTTON_PIN] = 1

\* the alpha of the overlay with handle h (255: visible, 0: hidden)
AlphaOf(ovs, h) == (CHOOSE o \in ovs : o.id = h).alpha

\* a WAITING tick that found nothing pressed: the only step that counts i
IdleTick ==
    /\ pc \in {"loop", "camDebounce", "exitDebounce"}
    /\ pc' = "loop"
    /\ level' = level

\* C19 (as claimed): on every idle tick the counter stays within 0..19 and
\* the machine stays in WAITING, and the second intro overlay changes between
\* visible and hidden at every tenth tick (when the counter reaches 10 and
\* when it wraps to 0) and at no other tick, from the first idle period on.
C19_Blink ==
    [][IdleTick =>
         /\ frame'.i \in 0..(2 * blink_speed - 1)
         /\ frame'.i = (frame.i + 1) % (2 * blink_speed)
         /\ (AlphaOf(overlays', frame'.overlay_2) # AlphaOf(overlays, frame.overlay_2))
                <=> (frame'.i % blink_speed = 0)]_vars

\* C20 (as claimed): whenever the machine is in WAITING, after any number of
\* completed sessions, the overlays on screen are exactly the two intro
\* overlays the loop holds the handles of, the first at layer 3 and the
\* second at layer 4: nothing a session created is left behind.
C20_NoLeak ==
    pc \in {"loop", "camDebounce", "exitDebounce"} =>
        /\ {o.id : o \in overlays} = {frame.overlay_1, frame.overlay_2}
        /\ {<<o.id, o.layer, o.image>> : o \in overlays} =
               {<<frame.overlay_1, 3, <<"assets/intro_1.png">>>>,
                <<frame.overlay_2, 4, <<"assets/intro_2.png">>>>}

====
